---- MODULE Spec2Model ----
(***************************************************************************)
(* A model of ixcompiler.Node (source/mt/B.x-Node.h): the AST node that    *)
(* owns one Token and an Array of child Nodes and keeps a non-owning       *)
(* parent pointer.  The heap is a function from addresses to Node          *)
(* structs; the caller holds Token handles and root Node handles.          *)
(***************************************************************************)
EXTENDS Integers, Sequences, FiniteSets, TLC

\* ------------------------------------------------------------------ bounds
MaxNodes == 3
MaxTokens == 3
MaxKids == 2

\* ------------------------------------------------------------ pointer values
\* The null pointer.
Null == 0
\* A non-null bit pattern that is the address of no Node: what an
\* unassigned field of freshly allocated storage may hold.
Wild == -1

Addr == 1..MaxNodes
Tokens == 1..MaxTokens

\* The values the never-assigned parent field of a new Node may hold.
Indeterminate == {Null, Wild}

\* struct _Node, plus the allocation state of its storage and of its Array.
\* state: "unalloc" (never allocated), "live", "freed".
\* array: TRUE while the children Array object exists.
NoNode == [state |-> "unalloc", token |-> Null, parent |-> Null,
           children |-> <<>>, array |-> FALSE]

\* One release event: kind is "token", "array" or "node"; id is the Token
\* released, or the address of the Node whose Array / storage is released.
Event(kind, id) == [kind |-> kind, id |-> id]

VARIABLES
    heap,        \* Addr -> struct _Node
    handle,      \* the caller's Token* variables: handle[t] is t or Null
    roots,       \* the Node* the caller got from Node_new and still holds
    tokenFrees,  \* Tokens -> number of Token_free calls that released it
    nodeFrees,   \* Addr -> number of Platform_Free calls on its storage
    arrayFrees,  \* Addr -> number of Array_free calls on its children Array
    appended,    \* history: Addr -> the units passed to Node_addChild, in order
    last         \* history: the last call, its arguments, result and releases

vars == <<heap, handle, roots, tokenFrees, nodeFrees, arrayFrees,
          appended, last>>

\* ------------------------------------------------------- external collaborators
\* Platform_Alloc: the address of fresh storage, or null when it fails.
\* ok is the allocator's outcome; storage is never handed out twice.
Platform_Alloc(hp, ok) ==
    LET free == {a \in Addr : hp[a].state = "unalloc"}
    IN  IF ok /\ free # {}
        THEN CHOOSE a \in free : \A b \in free : a <= b
        ELSE Null

\* Array_new: a new empty container.
Array_new == <<>>

\* Array_push: append at the back.
Array_push(arr, object) == Append(arr, object)

\* Array_length.
Array_length(arr) == Len(arr)

\* Array_getObject: the element at a 0-based index, absent outside the array.
Array_getObject(arr, index) ==
    IF 0 <= index /\ index < Len(arr) THEN arr[index + 1] ELSE Null

\* NodeIterator_new: the elements of the container, front to back.
NodeIterator_new(arr) == arr

\* Token_free( &token ): releases the unit and nulls the field it was held in.
Token_free(st, self) ==
    LET tok == st.heap[self].token
    IN  IF tok = Null THEN st
        ELSE [heap |-> [st.heap EXCEPT ![self].token = Null],
              log  |-> Append(st.log, Event("token", tok))]

\* Array_shift: removes and returns the front element, null when empty.
Array_shift(arr) ==
    IF Len(arr) = 0 THEN [object |-> Null, rest |-> arr]
    ELSE [object |-> Head(arr), rest |-> Tail(arr)]

\* Array_free( &children ): releases the container (not what it still holds)
\* and nulls the field.
Array_free(st, self) ==
    IF ~st.heap[self].array THEN st
    ELSE [heap |-> [st.heap EXCEPT ![self].array = FALSE, ![self].children = <<>>],
          log  |-> Append(st.log, Event("array", self))]

\* Platform_Free( self ): releases the Node's storage.
Platform_Free(st, self) ==
    [heap |-> [st.heap EXCEPT ![self] = [NoNode EXCEPT !.state = "freed"]],
     log  |-> Append(st.log, Event("node", self))]

\* ------------------------------------------------------------------- Node
\* Node_new taking the unit from the caller before it tests the allocation.
Node_new_moveFirst(hp, hd, t, ok, junk) ==
    LET self == Platform_Alloc(hp, ok)
    IN  IF self # Null
        THEN [self   |-> self,
              heap   |-> [hp EXCEPT ![self] =
                             [state    |-> "live",
                              token    |-> hd[t],
                              parent   |-> junk,
                              children |-> Array_new,
                              array    |-> TRUE]],
              handle |-> [hd EXCEPT ![t] = Null]]
        ELSE [self |-> Null, heap |-> hp, handle |-> [hd EXCEPT ![t] = Null]]

\* Node_new copying the unit without nulling the caller's handle.
Node_new_keepHandle(hp, hd, t, ok, junk) ==
    LET self == Platform_Alloc(hp, ok)
    IN  IF self # Null
        THEN [self   |-> self,
              heap   |-> [hp EXCEPT ![self] =
                             [state    |-> "live",
                              token    |-> hd[t],
                              parent   |-> junk,
                              children |-> Array_new,
                              array    |-> TRUE]],
              handle |-> hd]
        ELSE [self |-> Null, heap |-> hp, handle |-> hd]

\* Node_new( Token** token ): t names the caller's handle, ok the allocator's
\* outcome, junk what the storage held where the parent field lies.
Node_new(hp, hd, t, ok, junk) ==
    LET self == Platform_Alloc(hp, ok)
    IN  IF self # Null
        THEN [self   |-> self,
              heap   |-> [hp EXCEPT ![self] =
                             [state    |-> "live",
                              token    |-> hd[t],
                              parent   |-> junk,
                              children |-> Array_new,
                              array    |-> TRUE]],
              handle |-> [hd EXCEPT ![t] = Null]]
        ELSE [self |-> Null, heap |-> hp, handle |-> hd]

RECURSIVE Node_free(_, _)
RECURSIVE Node_freeChildren(_, _)
RECURSIVE Node_freeChildren_fromBack(_, _)

\* Node_free's loop taking the children from the back instead of the front.
Node_freeChildren_fromBack(st, self) ==
    LET arr == st.heap[self].children
        node == IF Len(arr) = 0 THEN Null ELSE arr[Len(arr)]
        s1 == [st EXCEPT !.heap[self].children =
                            IF Len(arr) = 0 THEN arr ELSE SubSeq(arr, 1, Len(arr) - 1)]
    IN  IF node = Null THEN s1
        ELSE Node_freeChildren_fromBack(Node_free(s1, node), self)

\* The loop of Node_free: while ( (node = Array_shift( children )) ) Node_free( &node ).
Node_freeChildren(st, self) ==
    LET sh == Array_shift(st.heap[self].children)
        s1 == [st EXCEPT !.heap[self].children = sh.rest]
    IN  IF sh.object = Null THEN s1
        ELSE Node_freeChildren(Node_free(s1, sh.object), self)

\* Node_free without the Token_free call.
Node_free_keepToken(st, self) ==
    IF self = Null THEN st
    ELSE LET s2 == Node_freeChildren(st, self)
             s3 == Array_free(s2, self)
             s4 == [s3 EXCEPT !.heap[self].parent = Null]
         IN  Platform_Free(s4, self)

\* Node_free releasing the unit of the Node its parent field points to.
Node_free_parentToken(st, self) ==
    IF self = Null THEN st
    ELSE LET s1 == Token_free(st, self)
             s2 == Node_freeChildren(s1, self)
             s3 == Array_free(s2, self)
             up == s3.heap[self].parent
             s4 == IF up \in Addr /\ s3.heap[up].state = "live"
                   THEN Token_free(s3, up) ELSE s3
             s5 == [s4 EXCEPT !.heap[self].parent = Null]
         IN  Platform_Free(s5, self)

\* Node_free( Node** self ), on the pair of the heap and the release log.
Node_free(st, self) ==
    IF self = Null THEN st
    ELSE LET s1 == Token_free(st, self)
             s2 == Node_freeChildren(s1, self)
             s3 == Array_free(s2, self)
             s4 == [s3 EXCEPT !.heap[self].parent = Null]
         IN  Platform_Free(s4, self)

\* Node_setParent( self, parent ).
Node_setParent(hp, self, parent) ==
    [hp EXCEPT ![self].parent = parent]

\* Node_addChild( self, token ).
Node_addChild(hp, hd, self, t, ok, junk) ==
    LET r == Node_new(hp, hd, t, ok, junk)
    IN  [child  |-> r.self,
         heap   |-> [r.heap EXCEPT ![self].children = Array_push(@, r.self)],
         handle |-> r.handle]

\* Node_getToken( self ).
Node_getToken(hp, self) == hp[self].token

\* Node_hasChildren( self ).
Node_hasChildren(hp, self) == 0 < Array_length(hp[self].children)

\* Node_iterator( self ).
Node_iterator(hp, self) == NodeIterator_new(hp[self].children)

\* Node_getLastChild indexing one past the last child.
Node_getLastChild_offByOne(hp, self) ==
    LET lastIndex == Array_length(hp[self].children)
    IN  Array_getObject(hp[self].children, lastIndex)

\* Node_getLastChild( self ).
Node_getLastChild(hp, self) ==
    LET lastIndex == Array_length(hp[self].children) - 1
    IN  Array_getObject(hp[self].children, lastIndex)

\* ------------------------------------------------------------- the caller
\* The entries of an Array that are Nodes.
Entries(arr) == {arr[i] : i \in 1..Len(arr)} \ {Null}

RECURSIVE TreeNodes(_, _)
\* The Nodes of the tree below (and including) n: owned through children.
TreeNodes(hp, n) ==
    {n} \cup UNION {TreeNodes(hp, c) : c \in Entries(hp[n].children)}

\* The Nodes the caller can name: its roots and what getLastChild and the
\* iterator lead to from them.
Reach == UNION {TreeNodes(heap, r) : r \in roots}

\* How often a release of (kind, id) occurs in a log.
Count(log, kind, id) ==
    Cardinality({i \in 1..Len(log) : log[i] = Event(kind, id)})

NoCall == [op |-> "none", self |-> Null, t |-> Null, ok |-> TRUE,
           new |-> Null, log |-> <<>>]

\* The unit the caller passes next: the scanner's units are handed over in
\* scan order, and a unit a failed call left with the caller is passed again.
NextUnit == CHOOSE t \in Tokens :
                /\ handle[t] # Null
                /\ \A u \in Tokens : handle[u] # Null => t <= u

Init ==
    /\ heap = [a \in Addr |-> NoNode]
    /\ handle = [t \in Tokens |-> t]
    /\ roots = {}
    /\ tokenFrees = [t \in Tokens |-> 0]
    /\ nodeFrees = [a \in Addr |-> 0]
    /\ arrayFrees = [a \in Addr |-> 0]
    /\ appended = [a \in Addr |-> <<>>]
    /\ last = NoCall

\* root = Node_new( &handle[t] )
Construct(t, ok, junk) ==
    /\ handle[t] # Null
    /\ t = NextUnit
    /\ ok => \E a \in Addr : heap[a].state = "unalloc"
    /\ LET r == Node_new(heap, handle, t, ok, junk)
       IN  /\ heap' = r.heap
           /\ handle' = r.handle
           /\ roots' = IF r.self # Null THEN roots \cup {r.self} ELSE roots
           /\ last' = [NoCall EXCEPT !.op = "construct", !.t = t, !.ok = ok,
                                     !.new = r.self]
    /\ UNCHANGED <<tokenFrees, nodeFrees, arrayFrees, appended>>

\* Node_addChild( self, &handle[t] )
AddChild(self, t, ok, junk) ==
    /\ self \in Reach
    /\ handle[t] # Null
    /\ t = NextUnit
    /\ Len(heap[self].children) < MaxKids
    /\ ok => \E a \in Addr : heap[a].state = "unalloc"
    /\ LET r == Node_addChild(heap, handle, self, t, ok, junk)
       IN  /\ heap' = r.heap
           /\ handle' = r.handle
           /\ last' = [NoCall EXCEPT !.op = "addChild", !.self = self, !.t = t,
                                     !.ok = ok, !.new = r.child]
    /\ appended' = [appended EXCEPT ![self] = Append(@, t)]
    /\ UNCHANGED <<roots, tokenFrees, nodeFrees, arrayFrees>>

\* Node_setParent( self, parent )
SetParent(self, parent) ==
    /\ self \in Reach
    /\ parent \in Reach \cup {Null}
    /\ heap' = Node_setParent(heap, self, parent)
    /\ last' = [NoCall EXCEPT !.op = "setParent", !.self = self, !.new = parent]
    /\ UNCHANGED <<handle, roots, tokenFrees, nodeFrees, arrayFrees, appended>>

\* Node_free( &root ), once, on a root the caller holds.
Destroy(root) ==
    /\ root \in roots
    /\ LET r == Node_free([heap |-> heap, log |-> <<>>], root)
       IN  /\ heap' = r.heap
           /\ tokenFrees' = [t \in Tokens |-> tokenFrees[t] + Count(r.log, "token", t)]
           /\ nodeFrees' = [a \in Addr |-> nodeFrees[a] + Count(r.log, "node", a)]
           /\ arrayFrees' = [a \in Addr |-> arrayFrees[a] + Count(r.log, "array", a)]
           /\ appended' = [a \in Addr |->
                             IF r.heap[a].state = "live" THEN appended[a] ELSE <<>>]
           /\ last' = [NoCall EXCEPT !.op = "destroy", !.self = root, !.log = r.log]
    /\ roots' = roots \ {root}
    /\ UNCHANGED handle

Next ==
    \/ \E t \in Tokens, ok \in BOOLEAN, junk \in Indeterminate : Construct(t, ok, junk)
    \/ \E self \in Addr, t \in Tokens, ok \in BOOLEAN, junk \in Indeterminate :
          AddChild(self, t, ok, junk)
    \/ \E self \in Addr, parent \in Addr \cup {Null} : SetParent(self, parent)
    \/ \E root \in Addr : Destroy(root)

Spec == Init /\ [][Next]_vars

\* --------------------------------------------------------------- destroy
\* Whether a release of (kind, id) occurs in a log, and where.
In(log, kind, id) == \E i \in 1..Len(log) : log[i] = Event(kind, id)
Pos(log, kind, id) == CHOOSE i \in 1..Len(log) : log[i] = Event(kind, id)

\* The entries of an Array in front of its first absent entry.
Drained(arr) ==
    LET nulls == {i \in 1..Len(arr) : arr[i] = Null}
        stop == IF nulls = {} THEN Len(arr) + 1
                ELSE CHOOSE i \in nulls : \A j \in nulls : i <= j
    IN  SubSeq(arr, 1, stop - 1)

RECURSIVE Subtree(_, _)
\* n and the Nodes below it through the entries in front of the first
\* absent entry of each children collection.
Subtree(hp, n) ==
    {n} \cup UNION {Subtree(hp, Drained(hp[n].children)[i]) :
                        i \in 1..Len(Drained(hp[n].children))}

\* Every children collection of the tree of n holds Nodes only: the tree was
\* built by successful addChild calls.
Clean(hp, n) ==
    \A m \in TreeNodes(hp, n) :
        \A i \in 1..Len(hp[m].children) : hp[m].children[i] # Null

\* The positions in a log of the releases of everything in a set of Nodes
\* (hp is the heap before the destroy).
Releases(hp, log, S) ==
    {i \in 1..Len(log) :
        \E m \in S : \/ log[i] = Event("token", hp[m].token)
                     \/ log[i] = Event("array", m)
                     \/ log[i] = Event("node", m)}

\* C1: destroy(root) of a tree built by successful addChild calls releases
\* every Node of the tree, its children container and its Lexical Unit exactly
\* once: afterwards none of them is allocated and none was released twice.
C1_DestroyReleasesOnce ==
    [][(last'.op = "destroy" /\ Clean(heap, last'.self)) =>
          \A n \in TreeNodes(heap, last'.self) :
              /\ heap'[n].state = "freed"
              /\ ~heap'[n].array
              /\ nodeFrees'[n] = 1
              /\ arrayFrees'[n] = 1
              /\ tokenFrees'[Node_getToken(heap, n)] = 1
              /\ Count(last'.log, "node", n) = 1
              /\ Count(last'.log, "token", Node_getToken(heap, n)) = 1]_vars

\* A destroy of a chain root -> child -> grandchild has released all three.
C1_Witness ==
    /\ last.op = "destroy"
    /\ Len(last.log) = 9
    /\ last.log[2].kind = "token"
    /\ last.log[3].kind = "token"
    /\ \A a \in Addr : nodeFrees[a] = 1
    /\ \A t \in Tokens : tokenFrees[t] = 1

\* C2 as stated: destroy(n) first destroys every child of n, front to back,
\* only then releases n's own Lexical Unit, and only then n's storage.
C2_ChildrenBeforeToken ==
    [][last'.op = "destroy" =>
          \A n \in Subtree(heap, last'.self) :
              LET kids == Drained(heap[n].children)
                  log == last'.log
              IN  /\ \A i \in 1..Len(kids) :
                         Pos(log, "node", kids[i]) < Pos(log, "token", heap[n].token)
                  /\ Pos(log, "token", heap[n].token) < Pos(log, "node", n)
                  /\ \A i, j \in 1..Len(kids) :
                         i < j => Pos(log, "node", kids[i]) < Pos(log, "node", kids[j])]_vars

\* C2 amended: destroy(n) first releases n's own Lexical Unit, then destroys
\* the children of n recursively (depth-first), front to back in append order
\* (the entries in front of the first absent one), and only after all of them
\* releases n's children container and then n's own storage.
C2_TokenThenChildrenThenStorage ==
    [][last'.op = "destroy" =>
          \A n \in Subtree(heap, last'.self) :
              LET kids == Drained(heap[n].children)
                  log == last'.log
              IN  /\ In(log, "token", heap[n].token)
                  /\ In(log, "array", n)
                  /\ In(log, "node", n)
                  /\ \A i \in 1..Len(kids) :
                        \A p \in Releases(heap, log, Subtree(heap, kids[i])) :
                            /\ Pos(log, "token", heap[n].token) < p
                            /\ p < Pos(log, "array", n)
                  /\ Pos(log, "token", heap[n].token) < Pos(log, "array", n)
                  /\ Pos(log, "array", n) < Pos(log, "node", n)
                  /\ \A i, j \in 1..Len(kids) :
                        i < j =>
                          \A p \in Releases(heap, log, Subtree(heap, kids[i])) :
                            \A q \in Releases(heap, log, Subtree(heap, kids[j])) :
                                p < q]_vars

\* A destroy of a root with two children has released the three Nodes.
C2_Witness ==
    /\ last.op = "destroy"
    /\ Len(last.log) = 9
    /\ last.log[2].kind = "token"
    /\ last.log[3].kind = "array"

\* -------------------------------------------------------------- addChild
Live == {a \in Addr : heap[a].state = "live"}

\* C3 as stated: after addChild(n, t), hasChildren(n) is true, n has exactly
\* one child more, the last child's token is t, and the earlier children are
\* still there in the same order.
C3_AddChildAppendsUnit ==
    [][last'.op = "addChild" =>
          LET n == last'.self
              before == Node_iterator(heap, n)
              after == Node_iterator(heap', n)
              child == Node_getLastChild(heap', n)
          IN  /\ Node_hasChildren(heap', n)
              /\ Len(after) = Len(before) + 1
              /\ SubSeq(after, 1, Len(before)) = before
              /\ child # Null
              /\ Node_getToken(heap', child) = last'.t]_vars

\* C4 as stated: iterator(n) yields one child for each addChild call on n,
\* carrying the units of those calls in call order; with no call, hasChildren
\* is false and the iterator is empty.
C4_IteratorYieldsAppended ==
    \A n \in Live :
        LET it == Node_iterator(heap, n)
        IN  /\ Len(it) = Len(appended[n])
            /\ \A i \in 1..Len(it) :
                   /\ it[i] # Null
                   /\ Node_getToken(heap, it[i]) = appended[n][i]
            /\ appended[n] = <<>> => (~Node_hasChildren(heap, n) /\ it = <<>>)

\* C8 as stated: every live Node has its children collection, and every entry
\* of it is a live Node, whether or not allocations failed.
C8_ChildrenAreLiveNodes ==
    \A n \in Live :
        /\ heap[n].array
        /\ \A i \in 1..Len(heap[n].children) :
               /\ heap[n].children[i] # Null
               /\ heap[n].children[i] \in Addr
               /\ heap[heap[n].children[i]].state = "live"

\* ------------------------------------------------------------- construct
\* C5: after a successful construct(t) the new Node's token is t, the
\* caller's handle is null, and nothing else holds or has released t.
C5_ConstructMovesUnit ==
    (last.op = "construct" /\ last.new # Null) =>
        /\ Node_getToken(heap, last.new) = last.t
        /\ handle[last.t] = Null
        /\ \A a \in Addr \ {last.new} : heap[a].token # last.t
        /\ tokenFrees[last.t] = 0

\* A second root has just been constructed.
C5_Witness ==
    /\ last.op = "construct"
    /\ last.new # Null
    /\ last.new \in roots
    /\ Cardinality(roots) >= 2

\* C6: a construct whose allocation fails returns null, leaves the unit with
\* the caller and changes no Node.
C6_FailedConstructChangesNothing ==
    [][(last'.op = "construct" /\ ~last'.ok) =>
          /\ last'.new = Null
          /\ handle' = handle
          /\ handle'[last'.t] = last'.t
          /\ heap' = heap
          /\ roots' = roots
          /\ tokenFrees' = tokenFrees]_vars

\* A construct has just failed while a tree with a child exists.
C6_Witness ==
    /\ last.op = "construct"
    /\ ~last.ok
    /\ last.new = Null
    /\ handle[last.t] = last.t
    /\ \E n \in Live : Node_hasChildren(heap, n)

C9_ParentAbsentUntilSet ==
    [][/\ (last'.op \in {"construct", "addChild"} /\ last'.new # Null) =>
              heap'[last'.new].parent = Null
       /\ \A a \in Addr :
              (/\ heap[a].state = "live"
               /\ heap'[a].state = "live"
               /\ ~(last'.op = "setParent" /\ last'.self = a)) =>
                  heap'[a].parent = heap[a].parent
       /\ last'.op = "setParent" =>
              \A a \in Addr :
                  /\ heap'[a].token = heap[a].token
                  /\ heap'[a].children = heap[a].children
                  /\ heap'[a].state = heap[a].state]_vars

\* C10: destroy(n) leaves every Node outside n's tree as it was: allocated,
\* with the same token, children and parent, and with nothing of it released.
C10_DestroyLeavesOthers ==
    [][last'.op = "destroy" =>
          \A a \in Addr \ TreeNodes(heap, last'.self) :
              /\ heap'[a] = heap[a]
              /\ nodeFrees'[a] = nodeFrees[a]
              /\ arrayFrees'[a] = arrayFrees[a]
              /\ heap[a].state = "live" =>
                    /\ Node_getToken(heap', a) = Node_getToken(heap, a)
                    /\ tokenFrees'[Node_getToken(heap, a)] = 0]_vars

\* A root survives the destroy of the root its parent field points to.
C10_Witness ==
    /\ last.op = "destroy"
    /\ \E b \in roots : /\ heap[b].state = "live"
                        /\ heap[b].parent = last.self
                        /\ Node_getToken(heap, b) # Null
                        /\ tokenFrees[Node_getToken(heap, b)] = 0

====
